---- MODULE Spec2Model ----
(***************************************************************************)
(* Model of the notebook Retrieval_Augmented_Generation_RAG_Chatbot.ipynb. *)
(*                                                                         *)
(* The program is a Jupyter notebook: its state is the kernel's globals,   *)
(* the knowledge-base directory it reads, the persisted Chroma store       *)
(* "vector_db", the ConversationBufferMemory objects it creates and the    *)
(* Gradio chat pages it launched.  Every code cell is one action; a cell   *)
(* that raises keeps the bindings made before the raising statement.       *)
(* Library calls are modelled by what the called function does, at the     *)
(* line that calls it.                                                     *)
(***************************************************************************)
EXTENDS Integers, Sequences, FiniteSets, TLC

(***************************************************************************)
(* Bounds of the model.                                                    *)
(***************************************************************************)
MaxStale == 1      \* vectors a run of an earlier kernel left in the store
MaxTurns == 3      \* chain invocations (debug queries and chat turns)
MaxMems == 2       \* ConversationBufferMemory objects created
MaxGen == 3        \* Chroma collections created

(***************************************************************************)
(* Program constants.                                                      *)
(***************************************************************************)
chunk_size == 1000
chunk_overlap == 200
separator_len == 2   \* CharacterTextSplitter's default separator "\n\n"
default_k == 4       \* as_retriever() without search_kwargs
debug_k == 25

\* The browser sessions that open the chat pages.
Sessions == {1, 2}

VARIABLES
    kb,             \* the knowledge-base directory tree (environment)
    store,          \* the persisted store: directory vector_db and its collection
    store0,         \* the persisted store the kernel found when it started
    bound,          \* the globals a cell binds and a later cell reads, once bound
    documents,      \* loaded Documents
    chunks,         \* Documents the splitter produced
    vectorstore,    \* generation of the collection the vectorstore object holds
    mems,           \* heap of ConversationBufferMemory objects: id -> messages
    memory,         \* id of the object the global `memory` names
    conversation_chain,  \* the chain the global names: [mem, k, vs, callbacks]
    views,          \* number of ChatInterface pages launched
    uiHist,         \* per browser session: the messages its page displays
    nTurns,         \* chain invocations so far (gives each turn its id)
    log,            \* completed turns, in completion order
    last            \* the latest cell run or chat call: how it ended, the store an
                    \* embedding run found, the chain invocation it made

vars == <<kb, store, store0, bound, documents, chunks, vectorstore,
          mems, memory, conversation_chain, views, uiHist, nTurns, log, last>>

(***************************************************************************)
(* Helpers.                                                                *)
(***************************************************************************)
Min(a, b) == IF a <= b THEN a ELSE b

RECURSIVE SeqSum(_)
SeqSum(s) == IF s = <<>> THEN 0 ELSE Head(s) + SeqSum(Tail(s))

RECURSIVE Concat(_)
Concat(ss) == IF ss = <<>> THEN <<>> ELSE Head(ss) \o Concat(Tail(ss))

\* All orders in which a finite set can be listed.
RECURSIVE Orders(_)
Orders(S) ==
    IF S = {} THEN {<<>>}
    ELSE UNION {{<<x>> \o o : o \in Orders(S \ {x})} : x \in S}

(***************************************************************************)
(* The knowledge base.  A file is its path below knowledge-base/ (a        *)
(* sequence of names), whether its name ends in .md, whether it can be     *)
(* read, and its text: the lengths of its paragraphs, which "\n\n"         *)
(* separates.                                                              *)
(***************************************************************************)
File(path, md, readable, paras) ==
    [path |-> path, md |-> md, readable |-> readable, paras |-> paras]

FaqA == File(<<"faq", "a.md">>, TRUE, TRUE, <<300>>)
PoliciesB == File(<<"policies", "b.md">>, TRUE, TRUE, <<600, 600>>)
ProductsSubC == File(<<"products", "sub", "c.md">>, TRUE, TRUE, <<1200>>)
ProductsD == File(<<"products", "d.md">>, TRUE, TRUE, <<500, 150, 600>>)
FaqEmpty == File(<<"faq", "empty.md">>, TRUE, TRUE, <<>>)
FaqNotes == File(<<"faq", "notes.txt">>, FALSE, TRUE, <<300>>)
PoliciesBad == File(<<"policies", "bad.md">>, TRUE, FALSE, <<300>>)
Readme == File(<<"README.md">>, TRUE, TRUE, <<300>>)

Tree(files) == [exists |-> TRUE, files |-> files]

\* The knowledge bases the model starts from: no directory, an empty one,
\* short and long documents, a nested one, a paragraph longer than a chunk,
\* an empty file, a file that is no markdown, one that cannot be read, and
\* a file directly below the root.
KnowledgeBases ==
    { [exists |-> FALSE, files |-> {}],
      Tree({}),
      Tree({FaqA, PoliciesB}),
      Tree({ProductsSubC, ProductsD}),
      Tree({FaqEmpty, FaqNotes}),
      Tree({FaqA, PoliciesBad}),
      Tree({FaqA, Readme}) }

\* os.path.basename(os.path.dirname(path)): the folder a file lies in.
ParentFolder(path) ==
    IF Len(path) >= 2 THEN path[Len(path) - 1] ELSE "knowledge-base"

\* The entries directly below the root that glob's "*" matches.
TopEntries(k) == {f.path[1] : f \in k.files}

IsDir(k, name) == \E f \in k.files : f.path[1] = name /\ Len(f.path) >= 2

(***************************************************************************)
(* Cell "Split Document into Smaller Chunks": loader and splitter.         *)
(***************************************************************************)
\* TextLoader(path).load(): one Document, metadata {"source": path}.
TextLoader_load(f) == [source |-> f.path, doc_type |-> "", paras |-> f.paras]

\* The markdown files DirectoryLoader's glob "**/*.md" finds below a folder,
\* at any depth.
MarkdownFilesIn(k, folder) ==
    {f \in k.files : f.path[1] = folder /\ Len(f.path) >= 2 /\ f.md}

\* DirectoryLoader(folder, glob="**/*.md", loader_cls=TextLoader).load():
\* raises when the path is no directory, and (silent_errors is left False)
\* when one of the files cannot be read; otherwise one Document per file.
DirectoryLoader_load(k, folder) ==
    LET fs == MarkdownFilesIn(k, folder)
        order == CHOOSE o \in Orders(fs) : TRUE
    IN IF ~IsDir(k, folder) THEN [err |-> "ValueError", docs |-> <<>>]
       ELSE IF \E f \in fs : ~f.readable
            THEN [err |-> "RuntimeError", docs |-> <<>>]
       ELSE [err |-> "none",
             docs |-> [i \in 1..Len(order) |-> TextLoader_load(order[i])]]

add_metadata_parent(doc, doc_type) ==
    [doc EXCEPT !.doc_type = ParentFolder(doc.source)]

\* def add_metadata(doc, doc_type)
add_metadata(doc, doc_type) == [doc EXCEPT !.doc_type = doc_type]

\* The loop over folders: doc_type is os.path.basename(folder); a raising
\* loader ends the cell with the documents of the folders before it.
RECURSIVE LoadFolders(_, _, _)
LoadFolders(k, fseq, docs) ==
    IF fseq = <<>> THEN [err |-> "none", documents |-> docs]
    ELSE LET folder == Head(fseq)
             doc_type == folder
             loaded == DirectoryLoader_load(k, folder)
         IN IF loaded.err # "none"
            THEN [err |-> loaded.err, documents |-> docs]
            ELSE LoadFolders(k, Tail(fseq),
                     docs \o [i \in 1..Len(loaded.docs) |->
                                 add_metadata(loaded.docs[i], doc_type)])

(***************************************************************************)
(* CharacterTextSplitter(chunk_size=1000, chunk_overlap=200): the text is  *)
(* cut at every "\n\n" and the pieces are merged greedily; a piece is      *)
(* never cut, whatever its length.                                         *)
(***************************************************************************)
SepIf(cond) == IF cond THEN separator_len ELSE 0

JoinLen(piece) == SeqSum(piece) + separator_len * (Len(piece) - 1)

\* _merge_splits' inner loop: drop pieces from the front of the window while
\* it is longer than the overlap, or still too long to take the next piece.
RECURSIVE PopFront(_, _, _)
PopFront(cur, total, len) ==
    IF total > chunk_overlap
       \/ (total + len + SepIf(Len(cur) > 0) > chunk_size /\ total > 0)
    THEN PopFront(Tail(cur), total - (Head(cur) + SepIf(Len(cur) > 1)), len)
    ELSE [cur |-> cur, total |-> total]

RECURSIVE MergeSplits(_, _, _, _)
MergeSplits(splits, docs, cur, total) ==
    IF splits = <<>>
    THEN IF cur = <<>> THEN docs ELSE Append(docs, cur)
    ELSE LET d == Head(splits)
             flush == total + d + SepIf(Len(cur) > 0) > chunk_size
                      /\ Len(cur) > 0
             kept == IF flush THEN PopFront(cur, total, d)
                     ELSE [cur |-> cur, total |-> total]
             cur2 == Append(kept.cur, d)
         IN MergeSplits(Tail(splits),
                        IF flush THEN Append(docs, cur) ELSE docs,
                        cur2,
                        kept.total + d + SepIf(Len(cur2) > 1))

\* split_text: text.split("\n\n") gives the paragraphs; the chunks are the
\* merged runs of paragraphs.
split_text(paras) == MergeSplits(paras, <<>>, <<>>, 0)

\* A chunk is a Document that copies its source's metadata.
Chunk(doc, piece) ==
    [source |-> doc.source, doc_type |-> doc.doc_type, paras |-> piece,
     len |-> JoinLen(piece)]

\* text_splitter.split_documents(documents)
split_documents(docs) ==
    Concat([i \in 1..Len(docs) |->
              LET pieces == split_text(docs[i].paras)
              IN [j \in 1..Len(pieces) |-> Chunk(docs[i], pieces[j])]])

(***************************************************************************)
(* Cell "Embedding": the persisted store.  The collection of the directory *)
(* has a generation (a new one each time it is created), and a vectorstore *)
(* object holds the generation it was opened on.                           *)
(***************************************************************************)
StaleEntry ==
    [source |-> <<"earlier-run">>, doc_type |-> "earlier-run",
     paras |-> <<100>>, len |-> 100]

NoStore == [dir |-> FALSE, coll |-> FALSE, gen |-> 0, entries |-> <<>>]

InitialStores ==
    {NoStore}
    \cup {[dir |-> TRUE, coll |-> TRUE, gen |-> 1,
           entries |-> [i \in 1..n |-> StaleEntry]] : n \in 0..MaxStale}

\* Chroma(persist_directory=db_name, ...): opens the directory's collection,
\* creating directory and collection when there is none.
Chroma_open(st) ==
    IF st.coll THEN st
    ELSE [dir |-> TRUE, coll |-> TRUE, gen |-> st.gen + 1, entries |-> <<>>]

\* .delete_collection()
delete_collection(st) == [st EXCEPT !.coll = FALSE, !.entries = <<>>]

KeepIfExists(st) == st

\* if os.path.exists(db_name): Chroma(...).delete_collection()
ResetIfExists(st) ==
    IF st.dir THEN delete_collection(Chroma_open(st)) ELSE st

\* collection.upsert of one vector per chunk.
add_texts(st, cs) == [st EXCEPT !.entries = @ \o cs]

\* vectorstore._collection.count()
Count(st) == Len(st.entries)

(***************************************************************************)
(* ConversationBufferMemory and ConversationalRetrievalChain.              *)
(***************************************************************************)
Msg(role, id) == [role |-> role, turn |-> id]

Exchange(id) == <<Msg("human", id), Msg("ai", id)>>

save_context_window(h, id) == Exchange(id)

\* memory.save_context: the question and the answer are appended.
save_context(h, id) == h \o Exchange(id)

NoChain == [mem |-> 0, k |-> 0, vs |-> 0, callbacks |-> FALSE]

\* ConversationalRetrievalChain.from_llm(llm, retriever, memory[, callbacks])
from_llm(k, vs, mem, callbacks) ==
    [mem |-> mem, k |-> k, vs |-> vs, callbacks |-> callbacks]

FailPoints == {"none", "condense", "embed", "answer"}

ChatHistoryFromArgument(history, buffer) == history

\* The chat_history the chain works with: invoke({"question": question})
\* passes no history, so the chain loads its memory's buffer; chat's
\* `history` parameter is not read.
ChatHistoryInput(history, buffer) == buffer

similarity_search_strict(k, n) == IF n = 0 THEN -1 ELSE Min(k, n)

\* retriever over a collection of n vectors: the k nearest chunks, all n of
\* them when there are fewer (none for an empty collection); -1 stands for
\* an exception.
similarity_search(k, n) == Min(k, n)

\* The steps of one chain.invoke, in order; the question is condensed by a
\* first chat-completion call only when there is history.
StepsOf(ctx) ==
    <<"load">> \o (IF ctx # <<>> THEN <<"condense">> ELSE <<>>)
    \o <<"embed", "retrieve", "answer", "save">>

RECURSIVE UpTo(_, _)
UpTo(steps, stop) ==
    IF steps = <<>> THEN <<>>
    ELSE IF Head(steps) = stop THEN <<stop>>
    ELSE <<Head(steps)>> \o UpTo(Tail(steps), stop)

Ran(t, step) == \E i \in 1..Len(t.steps) : t.steps[i] = step

\* conversation_chain.invoke({"question": question}) on chain c, as turn id
\* of caller (0: the kernel; n: browser session n).  fail names the service
\* call that raises, byName whether a vectorstore object whose collection
\* was deleted and created anew finds the new collection.
Invoke(c, id, caller, history, fail, byName, st, buffer) ==
    LET ctx == ChatHistoryInput(history, buffer)
        reachable == st.coll /\ (c.vs = st.gen \/ byName)
        found == IF reachable THEN similarity_search(c.k, Count(st)) ELSE -1
        stop == IF ctx # <<>> /\ fail = "condense" THEN "condense"
                ELSE IF fail = "embed" THEN "embed"
                ELSE IF found < 0 THEN "retrieve"
                ELSE IF fail = "answer" THEN "answer"
                ELSE "save"
        steps == UpTo(StepsOf(ctx), stop)
        queried == stop \in {"retrieve", "answer", "save"} /\ reachable
    IN [id |-> id, caller |-> caller, mem |-> c.mem, k |-> c.k,
        history |-> history, ctx |-> ctx, steps |-> steps,
        visible |-> IF queried THEN Count(st) ELSE -1,
        docs |-> IF queried THEN found ELSE -1,
        err |-> CASE stop = "save" -> "none"
                  [] stop = "retrieve" -> "CollectionError"
                  [] stop = "embed" -> "EmbeddingError"
                  [] OTHER -> "ChatCompletionError"]

NoTurn ==
    [id |-> 0, caller |-> 0, mem |-> 0, k |-> 0, history |-> <<>>,
     ctx |-> <<>>, steps |-> <<>>, visible |-> -1,
     docs |-> -1, err |-> "none"]

MemoryAfterAlways(t, h) == save_context(h, t.id)

\* Chain.invoke saves the exchange (prep_outputs) only after _call returned;
\* an exception of _call is raised again and nothing is saved.
MemoryAfter(t, h) == IF t.err = "none" THEN save_context(h, t.id) ELSE h

LogAfter(t, l) ==
    IF t.err = "none"
    THEN Append(l, [id |-> t.id, mem |-> t.mem, caller |-> t.caller])
    ELSE l

Result(op, err) == [op |-> op, err |-> err, before |-> NoStore, turn |-> NoTurn]

EmbedResult(err, before) == [Result("embed", err) EXCEPT !.before = before]

TurnResult(op, t) == [Result(op, t.err) EXCEPT !.turn = t]

(***************************************************************************)
(* Initial state: a fresh kernel; the knowledge base and the persisted     *)
(* store are whatever the disk holds.                                      *)
(***************************************************************************)
Init ==
    /\ kb \in KnowledgeBases
    /\ store \in InitialStores
    /\ store0 = store
    /\ bound = {}
    /\ documents = <<>>
    /\ chunks = <<>>
    /\ vectorstore = 0
    /\ mems = <<>>
    /\ memory = 0
    /\ conversation_chain = NoChain
    /\ views = 0
    /\ uiHist = [s \in Sessions |-> <<>>]
    /\ nTurns = 0
    /\ log = <<>>
    /\ last = Result("start", "none")

\* Cell "Import Libraries and Environment Set Up".
RunImportsCell ==
    /\ bound' = bound \cup {"imports"}
    /\ last' = Result("imports", "none")
    /\ UNCHANGED <<kb, store, store0, documents, chunks, vectorstore,
                   mems, memory, conversation_chain, views, uiHist,
                   nTurns, log>>

\* glob.glob("knowledge-base/*"): the entries below the root, in the order
\* the directory lists them; nothing (and no exception) when the root does
\* not exist.
glob(k) == CHOOSE o \in Orders(TopEntries(k)) : TRUE

\* Cell "Split Document into Smaller Chunks".
RunLoadCell ==
    /\ IF "imports" \notin bound
       THEN /\ last' = Result("load", "NameError")
            /\ UNCHANGED <<bound, documents, chunks>>
       ELSE LET r == LoadFolders(kb, glob(kb), <<>>)
            IN /\ documents' = r.documents
               /\ IF r.err = "none"
                  THEN /\ chunks' = split_documents(r.documents)
                       /\ bound' = bound \cup {"chunks"}
                  ELSE UNCHANGED <<chunks, bound>>
               /\ last' = Result("load", r.err)
    /\ UNCHANGED <<kb, store, store0, vectorstore, mems, memory,
                   conversation_chain, views, uiHist, nTurns, log>>

\* Chroma.from_documents(documents=cs, embedding=embeddings,
\* persist_directory=db_name): opens the collection, then embeds the chunks
\* and adds them.  outcome: "ok"; "EmbeddingError", the embedding service
\* raises; "ValueError", the Chroma build at hand rejects an empty batch.
from_documents(st, cs, outcome) ==
    IF outcome = "ok" THEN add_texts(Chroma_open(st), cs) ELSE Chroma_open(st)

BuildOutcomes(cs) ==
    IF cs = <<>> THEN {"ok", "ValueError"} ELSE {"ok", "EmbeddingError"}

\* Cell "Embedding".
RunEmbedCell ==
    /\ store.gen + 2 <= MaxGen
    /\ IF "imports" \notin bound
       THEN /\ last' = EmbedResult("NameError", store)
            /\ UNCHANGED <<bound, store, vectorstore>>
       ELSE /\ IF "chunks" \notin bound
               THEN /\ store' = ResetIfExists(store)
                    /\ last' = EmbedResult("NameError", store)
                    /\ UNCHANGED <<bound, vectorstore>>
               ELSE \E outcome \in BuildOutcomes(chunks) :
                      /\ store' = from_documents(ResetIfExists(store), chunks, outcome)
                      /\ last' = EmbedResult(IF outcome = "ok" THEN "none" ELSE outcome, store)
                      /\ IF outcome = "ok"
                         THEN /\ vectorstore' = store'.gen
                              /\ bound' = bound \cup {"vectorstore"}
                         ELSE UNCHANGED <<bound, vectorstore>>
    /\ UNCHANGED <<kb, store0, documents, chunks, mems, memory,
                   conversation_chain, views, uiHist, nTurns, log>>

\* Cell "Let's investigate the vectors": count the collection and read the
\* first embedding's length; the read raises on an empty collection.
RunInvestigateCell ==
    /\ IF "vectorstore" \notin bound
       THEN last' = Result("investigate", "NameError")
       ELSE \E byName \in BOOLEAN :
              last' = Result("investigate",
                         IF ~(store.coll /\ (vectorstore = store.gen \/ byName))
                         THEN "CollectionError"
                         ELSE IF Count(store) = 0 THEN "IndexError" ELSE "none")
    /\ UNCHANGED <<kb, store, store0, bound, documents, chunks, vectorstore,
                   mems, memory, conversation_chain, views, uiHist, nTurns,
                   log>>

\* Cell "RAG Using LangChain".  Its source holds two lines of prose that are
\* no Python ("Now we will bring this up in Gradio ...", "A quick and easy
\* way ..."): the cell does not compile, and none of its statements runs.
RunRagCell ==
    /\ last' = Result("rag", "SyntaxError")
    /\ UNCHANGED <<kb, store, store0, bound, documents, chunks,
                   vectorstore, mems, memory, conversation_chain, views,
                   uiHist, nTurns, log>>

\* Cell "Debugging and investigating incorrect answers": a new memory, a
\* chain with callbacks, the debug query, then the k=25 chain over the same
\* memory, chat, and a ChatInterface page.
RunDebugCell ==
    IF "imports" \notin bound
    THEN /\ last' = Result("debug", "NameError")
         /\ UNCHANGED <<kb, store, store0, bound, documents, chunks,
                        vectorstore, mems, memory, conversation_chain,
                        views, uiHist, nTurns, log>>
    ELSE /\ Len(mems) < MaxMems
         /\ memory' = Len(mems) + 1
         /\ IF "vectorstore" \notin bound
            THEN /\ mems' = Append(mems, <<>>)
                 /\ last' = Result("debug", "NameError")
                 /\ UNCHANGED <<conversation_chain, views, nTurns, log>>
            ELSE /\ nTurns < MaxTurns
                 /\ \E fail \in FailPoints, byName \in BOOLEAN :
                      LET first == from_llm(default_k, vectorstore, memory', TRUE)
                          t == Invoke(first, nTurns + 1, 0, <<>>, fail, byName,
                                      store, <<>>)
                      IN /\ nTurns' = nTurns + 1
                         /\ mems' = Append(mems, MemoryAfter(t, <<>>))
                         /\ log' = LogAfter(t, log)
                         /\ last' = TurnResult("debug", t)
                         /\ IF t.err = "none"
                            THEN /\ conversation_chain' =
                                       from_llm(debug_k, vectorstore, memory', FALSE)
                                 /\ views' = views + 1
                            ELSE /\ conversation_chain' = first
                                 /\ views' = views
         /\ UNCHANGED <<kb, store, store0, bound, documents, chunks,
                        vectorstore, uiHist>>

\* def chat(question, history), called by a ChatInterface page for browser
\* session s: the page shows the question, calls chat with what it showed
\* before, and shows the answer chat returns.  chat reads the global
\* conversation_chain when it is called.
chat(s) ==
    /\ views >= 1
    /\ nTurns < MaxTurns
    /\ \E fail \in FailPoints, byName \in BOOLEAN :
         LET c == conversation_chain
             t == Invoke(c, nTurns + 1, s, uiHist[s], fail, byName, store,
                         mems[c.mem])
         IN /\ nTurns' = nTurns + 1
            /\ mems' = [mems EXCEPT ![c.mem] = MemoryAfter(t, @)]
            /\ log' = LogAfter(t, log)
            /\ uiHist' = [uiHist EXCEPT ![s] =
                             IF t.err = "none" THEN @ \o Exchange(t.id)
                             ELSE Append(@, Msg("human", t.id))]
            /\ last' = TurnResult("chat", t)
    /\ UNCHANGED <<kb, store, store0, bound, documents, chunks,
                   vectorstore, memory, conversation_chain, views>>

Next ==
    \/ RunImportsCell
    \/ RunLoadCell
    \/ RunEmbedCell
    \/ RunInvestigateCell
    \/ RunRagCell
    \/ RunDebugCell
    \/ \E s \in Sessions : chat(s)

Spec == Init /\ [][Next]_vars

(***************************************************************************)
(* Properties of the notebook.                                             *)
(***************************************************************************)
\* The latest action invoked the chain (the debug query or a chat turn).
Invoked == last.op \in {"debug", "chat"} /\ last.turn.id > 0

\* The exchanges the log holds for memory m, before turn id, in log order.
RECURSIVE Logged(_, _, _)
Logged(l, m, id) ==
    IF l = <<>> THEN <<>>
    ELSE (IF Head(l).mem = m /\ Head(l).id < id THEN Exchange(Head(l).id) ELSE <<>>)
         \o Logged(Tail(l), m, id)

Successes(m) == Cardinality({i \in 1..Len(log) : log[i].mem = m})

\* C1: a turn that fails at the question embedding or at a chat-completion
\* call records nothing: its memory is what it was when the turn started,
\* no message of the turn is in any memory, and the turn is not logged.
C1_FailedTurnRecordsNothing ==
    (Invoked /\ last.turn.err \in {"EmbeddingError", "ChatCompletionError"}) =>
        /\ mems[last.turn.mem] = last.turn.ctx
        /\ \A m \in DOMAIN mems : \A i \in 1..Len(mems[m]) :
               mems[m][i].turn # last.turn.id
        /\ \A i \in 1..Len(log) : log[i].id # last.turn.id

\* A turn failed at the final chat-completion call, after retrieval, on a
\* memory that already held an exchange.
C1_Witness ==
    /\ Invoked
    /\ last.turn.err = "ChatCompletionError"
    /\ Ran(last.turn, "answer")
    /\ last.turn.ctx # <<>>

\* C2: every memory holds exactly the exchanges of the turns that succeeded
\* on it, two messages each, in the order they completed; nothing is pruned.
C2_HistoryIsSuccessfulTurnsInOrder ==
    \A m \in DOMAIN mems :
        /\ mems[m] = Logged(log, m, nTurns + 1)
        /\ Len(mems[m]) = 2 * Successes(m)

\* A turn failed on a memory that holds two earlier exchanges.
C2_Witness ==
    /\ Invoked
    /\ last.turn.err # "none"
    /\ Successes(last.turn.mem) = 2
    /\ Len(mems[last.turn.mem]) = 4

\* C3 (as claimed): after a run of the embedding cell that the embedding
\* service aborted, the store holds what it held before the run.
C3_AbortedRunKeepsStore ==
    (last.op = "embed" /\ last.err = "EmbeddingError") =>
        store.entries = last.before.entries

\* C5: after a run of the embedding cell that completed, whatever the store
\* held before, count() is the number of chunks and the store holds exactly
\* the chunks.
C5_CountIsChunksAdded ==
    (last.op = "embed" /\ last.err = "none") =>
        /\ Count(store) = Len(chunks)
        /\ store.entries = chunks

\* The store already held the vectors of the same corpus, and is rebuilt.
C5_Witness ==
    /\ last.op = "embed"
    /\ last.err = "none"
    /\ chunks # <<>>
    /\ last.before.entries = chunks
    /\ Count(store) = Len(chunks)

\* C6 (as claimed): every Document and Chunk carries the name of the folder
\* its file lies in.
C6_DocTypeIsParentFolder ==
    /\ \A i \in 1..Len(documents) :
           documents[i].doc_type = ParentFolder(documents[i].source)
    /\ \A i \in 1..Len(chunks) :
           chunks[i].doc_type = ParentFolder(chunks[i].source)

\* C6 (amended): every Document and Chunk carries the name of the folder
\* directly below the knowledge-base root that its file lies under.
C6_DocTypeIsTopFolder ==
    /\ \A i \in 1..Len(documents) :
           documents[i].doc_type = documents[i].source[1]
    /\ \A i \in 1..Len(chunks) :
           chunks[i].doc_type = chunks[i].source[1]

\* A chunk of a nested file: its doc_type is not its parent folder's name.
C6_Witness ==
    \E i \in 1..Len(chunks) :
        /\ Len(chunks[i].source) > 2
        /\ chunks[i].doc_type = chunks[i].source[1]
        /\ chunks[i].doc_type # ParentFolder(chunks[i].source)

C8_MissingRootAbortsIngestion ==
    ~kb.exists =>
        /\ (last.op = "load" => last.err # "none")
        /\ store = store0
        /\ views = 0

\* C9 (as claimed): no chunk is longer than chunk_size.
C9_ChunksWithinChunkSize ==
    \A i \in 1..Len(chunks) : chunks[i].len <= chunk_size

\* C10: the history a turn works with is the exchanges of all turns
\* completed so far on the chain's memory, whoever asked them (the debug
\* query included); chat's history argument plays no part.
C10_ContextIsSharedMemory ==
    Invoked =>
        /\ last.turn.ctx = Logged(log, last.turn.mem, last.turn.id)
        /\ last.op = "chat" => last.turn.mem = conversation_chain.mem

\* A chat turn of one session whose context holds the debug query's turn
\* and another session's turn, none of which its page ever showed.
C10_Witness ==
    /\ last.op = "chat"
    /\ last.turn.history = <<>>
    /\ \E i, j \in 1..Len(log) :
           /\ log[i].mem = last.turn.mem /\ log[i].caller = 0
           /\ log[j].mem = last.turn.mem /\ log[j].caller \notin {0, last.turn.caller}
           /\ log[i].id < last.turn.id /\ log[j].id < last.turn.id
    /\ Len(last.turn.ctx) = 4

====
